---- MODULE Spec2Model ----
(***************************************************************************)
(* Model of the secure chat handler of mentora-app (api/chat/index.js):    *)
(* the in-memory rate limiter, the message validator and redactor, the     *)
(* CORS helper and the HTTP handler that wires them to the outbound model  *)
(* call.                                                                   *)
(*                                                                         *)
(* Text is modelled as a sequence of one-character strings, so that the    *)
(* regular expressions of the source are computed position by position.    *)
(* JSON values are records [t |-> type tag, v |-> payload].                *)
(***************************************************************************)
EXTENDS Integers, Sequences, FiniteSets, TLC

VARIABLES
    vContent,      \* validator harness: the content text handed to the validator
    vPieces,       \* validator harness: number of fragments the text was built from
    vFill,         \* validator harness: length of the filler the text starts with
    vResult,       \* validator harness: result of validateAndSanitizeInput, or NotRun
    rateLimitStore, \* the Map clientId -> {count, resetTime}
    now,           \* Date.now()
    hist,          \* history: per client key, the calls of its current window
    cOrigin,       \* CORS harness: the Origin header value (JNull when absent)
    cPieces,       \* CORS harness: number of fragments the origin was built from
    cHeaders,      \* CORS harness: the headers getCorsHeaders returned, or NoHeaders
    inv,           \* the handler invocations in progress or finished, by number
    configured     \* whether process.env holds the endpoint, key and deployment

valVars == <<vContent, vPieces, vFill, vResult>>
limVars == <<rateLimitStore, now, hist>>
corsVars == <<cOrigin, cPieces, cHeaders>>
hVars == <<inv, configured>>
vars == <<vContent, vPieces, vFill, vResult, rateLimitStore, now, hist,
          cOrigin, cPieces, cHeaders, inv, configured>>

(***************************************************************************)
(* Program constants                                                       *)
(***************************************************************************)
MAX_MESSAGE_LENGTH == 4000
MAX_TOKENS == 1000
RATE_LIMIT_WINDOW == 60000
RATE_LIMIT_MAX_REQUESTS == 30
MAX_MESSAGES == 10

(***************************************************************************)
(* Bounds of the model                                                     *)
(***************************************************************************)
MaxPieces == 3       \* fragments in a short content text
MaxLongPieces == 1   \* fragments appended after a long filler
MaxOriginPieces == 4 \* fragments in an Origin header value
MaxInv == 2          \* handler invocations in flight at once
MaxOver == 2         \* calls made for a key beyond the limit of its window
MaxNow == 120001     \* the clock stops here

(***************************************************************************)
(* Characters and character classes of the regular expressions             *)
(***************************************************************************)
Digits == {"0", "1", "2", "3", "4", "5", "6", "7", "8", "9"}
UpperCase == {"A", "B", "C", "D", "E", "F", "G", "H", "I", "J", "K", "L", "M",
              "N", "O", "P", "Q", "R", "S", "T", "U", "V", "W", "X", "Y", "Z"}
LowerCase == {"a", "b", "c", "d", "e", "f", "g", "h", "i", "j", "k", "l", "m",
              "n", "o", "p", "q", "r", "s", "t", "u", "v", "w", "x", "y", "z"}
\* \w of a JavaScript regular expression
WordChars == Digits \cup UpperCase \cup LowerCase \cup {"_"}
\* [A-Za-z0-9._%+-]
EmailLocalClass == UpperCase \cup LowerCase \cup Digits \cup {".", "_", "%", "+", "-"}
\* [A-Za-z0-9.-]
EmailDomainClass == UpperCase \cup LowerCase \cup Digits \cup {".", "-"}
\* [A-Z|a-z]: the bar inside the brackets is a literal character of the class
EmailTldClass == UpperCase \cup LowerCase \cup {"|"}
\* the white space String.prototype.trim removes (the characters TLA+ can write)
WhiteSpace == {" ", "\t", "\n", "\r", "\f"}

Min(S) == CHOOSE x \in S : \A y \in S : x <= y
Max(S) == CHOOSE x \in S : \A y \in S : x >= y

\* \b at the gap before position i (1 <= i <= Len(s) + 1)
IsWordBoundary(s, i) ==
    LET before == i > 1 /\ s[i - 1] \in WordChars
        after == i <= Len(s) /\ s[i] \in WordChars
    IN before # after

\* number of consecutive characters of class from position i on
RECURSIVE RunLen(_, _, _)
RunLen(s, i, class) ==
    IF i <= Len(s) /\ s[i] \in class THEN 1 + RunLen(s, i + 1, class) ELSE 0

(***************************************************************************)
(* The three redaction patterns.  Each operator gives the length of the    *)
(* match the regular expression finds when anchored at position i, or 0.   *)
(***************************************************************************)
\* /\b\d{3}-\d{2}-\d{4}\b/
SsnMatchLen(s, i) ==
    IF /\ i + 10 <= Len(s)
       /\ IsWordBoundary(s, i)
       /\ \A j \in {i, i + 1, i + 2} : s[j] \in Digits
       /\ s[i + 3] = "-"
       /\ \A j \in {i + 4, i + 5} : s[j] \in Digits
       /\ s[i + 6] = "-"
       /\ \A j \in {i + 7, i + 8, i + 9, i + 10} : s[j] \in Digits
       /\ IsWordBoundary(s, i + 11)
    THEN 11 ELSE 0

\* /\b\d{10,16}\b/ : the greedy quantifier keeps the longest count that lets \b hold
IdMatchLen(s, i) ==
    IF ~(i <= Len(s) /\ s[i] \in Digits /\ IsWordBoundary(s, i)) THEN 0
    ELSE LET run == RunLen(s, i, Digits)
             K == {k \in 10..16 : k <= run /\ IsWordBoundary(s, i + k)}
         IN IF K = {} THEN 0 ELSE Max(K)

\* /\b[A-Za-z0-9._%+-]+@[A-Za-z0-9.-]+\.[A-Z|a-z]{2,}\b/ : backtracking tries the
\* longest local part first, then the longest domain, then the longest TLD
EmailMatchLen(s, i) ==
    IF ~(i <= Len(s) /\ s[i] \in EmailLocalClass /\ IsWordBoundary(s, i)) THEN 0
    ELSE LET lrun == RunLen(s, i, EmailLocalClass)
             TldLens(p) == {t \in 2..RunLen(s, p, EmailTldClass) : IsWordBoundary(s, p + t)}
             DomLens(p) == {d \in 1..RunLen(s, p, EmailDomainClass) :
                               /\ p + d <= Len(s)
                               /\ s[p + d] = "."
                               /\ TldLens(p + d + 1) # {}}
             LocLens == {l \in 1..lrun :
                               /\ i + l <= Len(s)
                               /\ s[i + l] = "@"
                               /\ DomLens(i + l + 1) # {}}
         IN IF LocLens = {} THEN 0
            ELSE LET l == Max(LocLens)
                     d == Max(DomLens(i + l + 1))
                     t == Max(TldLens(i + l + 1 + d + 1))
                 IN l + 1 + d + 1 + t

REDACTED_SSN == <<"[", "R", "E", "D", "A", "C", "T", "E", "D", "-", "S", "S", "N", "]">>
REDACTED_ID_Digits ==
    <<"[", "R", "E", "D", "A", "C", "T", "E", "D", "-", "I", "D", "-",
      "0", "0", "0", "0", "0", "0", "0", "0", "0", "0", "]">>
REDACTED_ID == <<"[", "R", "E", "D", "A", "C", "T", "E", "D", "-", "I", "D", "]">>
REDACTED_EMAIL ==
    <<"[", "R", "E", "D", "A", "C", "T", "E", "D", "-", "E", "M", "A", "I", "L", "]">>

MatchLen(rule, s, i) ==
    CASE rule = "ssn" -> SsnMatchLen(s, i)
      [] rule = "id" -> IdMatchLen(s, i)
      [] rule = "email" -> EmailMatchLen(s, i)

Token(rule) ==
    CASE rule = "ssn" -> REDACTED_SSN
      [] rule = "id" -> REDACTED_ID
      [] rule = "email" -> REDACTED_EMAIL

\* String.prototype.replace with a /g pattern: the leftmost match at or after
\* position i is replaced, and the search goes on behind it
RECURSIVE ReplaceFrom(_, _, _)
ReplaceFrom(rule, s, i) ==
    LET starts == {j \in i..Len(s) : MatchLen(rule, s, j) > 0}
    IN IF starts = {} THEN SubSeq(s, i, Len(s))
       ELSE LET j == Min(starts)
            IN SubSeq(s, i, j - 1) \o Token(rule)
                  \o ReplaceFrom(rule, s, j + MatchLen(rule, s, j))

\* the same without the g flag: the first match only
ReplaceOnce(rule, s) ==
    LET starts == {j \in 1..Len(s) : MatchLen(rule, s, j) > 0}
    IN IF starts = {} THEN s
       ELSE LET j == Min(starts)
            IN SubSeq(s, 1, j - 1) \o Token(rule)
                  \o SubSeq(s, j + MatchLen(rule, s, j), Len(s))

ReplaceAll(rule, s) == ReplaceFrom(rule, s, 1)

\* number of consecutive characters of class from position i backwards
RECURSIVE RunLenBack(_, _, _)
RunLenBack(s, i, class) ==
    IF i >= 1 /\ s[i] \in class THEN 1 + RunLenBack(s, i - 1, class) ELSE 0

\* String.prototype.trim
Trim(s) ==
    LET lead == RunLen(s, 1, WhiteSpace)
        trail == RunLenBack(s, Len(s), WhiteSpace)
    IN IF lead = Len(s) THEN <<>> ELSE SubSeq(s, lead + 1, Len(s) - trail)

\* const sanitizedContent = msg.content.replace(ssn).replace(id).replace(email)
sanitizedContent(content) ==
    ReplaceAll("email", ReplaceAll("id", ReplaceAll("ssn", content)))

(***************************************************************************)
(* JSON values                                                             *)
(***************************************************************************)
JUndefined == [t |-> "undefined", v |-> <<>>]
JNull == [t |-> "null", v |-> <<>>]
JBool(b) == [t |-> "boolean", v |-> b]
JNumber(n) == [t |-> "number", v |-> n]
JString(s) == [t |-> "string", v |-> s]
JArray(a) == [t |-> "array", v |-> a]
JObject(fields) == [t |-> "object", v |-> fields]

\* value.name for a value that is neither null nor undefined
Prop(value, name) ==
    IF value.t = "object" /\ name \in DOMAIN value.v THEN value.v[name] ELSE JUndefined

\* ToBoolean
Truthy(value) ==
    CASE value.t \in {"undefined", "null"} -> FALSE
      [] value.t = "boolean" -> value.v
      [] value.t = "number" -> value.v # 0
      [] value.t = "string" -> Len(value.v) > 0
      [] OTHER -> TRUE

ROLE_USER == <<"u", "s", "e", "r">>
ROLE_ASSISTANT == <<"a", "s", "s", "i", "s", "t", "a", "n", "t">>
ROLE_SYSTEM == <<"s", "y", "s", "t", "e", "m">>
ValidRoles == {ROLE_USER, ROLE_ASSISTANT, ROLE_SYSTEM}

NoError == "none"

\* the checks of the map callback: the message of the Error it throws, or NoError
MessageError(msg) ==
    IF msg.t \in {"undefined", "null"}
    THEN "TypeError: Cannot read properties"
    ELSE IF ~Truthy(Prop(msg, "role")) \/ ~Truthy(Prop(msg, "content"))
    THEN "Each message must have role and content"
    ELSE IF ~(Prop(msg, "role").t = "string" /\ Prop(msg, "role").v \in ValidRoles)
    THEN "Invalid message role"
    ELSE IF \/ Prop(msg, "content").t # "string"
            \/ Len(Prop(msg, "content").v) > MAX_MESSAGE_LENGTH
    THEN "Message content too long"
    ELSE NoError

\* the value the map callback returns for a message that passed the checks
SanitizeMessage(msg) ==
    [role |-> Prop(msg, "role").v,
     content |-> Trim(sanitizedContent(Prop(msg, "content").v))]

\* validateAndSanitizeInput(messages): [ok, error, value]
validateAndSanitizeInput(messages) ==
    IF messages.t # "array" \/ Len(messages.v) = 0
    THEN [ok |-> FALSE, error |-> "Messages must be a non-empty array", value |-> <<>>]
    ELSE IF Len(messages.v) > MAX_MESSAGES
    THEN [ok |-> FALSE, error |-> "Too many messages in conversation", value |-> <<>>]
    ELSE LET bad == {k \in 1..Len(messages.v) : MessageError(messages.v[k]) # NoError}
         IN IF bad # {}
            THEN [ok |-> FALSE, error |-> MessageError(messages.v[Min(bad)]),
                  value |-> <<>>]
            ELSE [ok |-> TRUE, error |-> NoError,
                  value |-> [k \in 1..Len(messages.v) |-> SanitizeMessage(messages.v[k])]]

(***************************************************************************)
(* Validator harness: a content text is assembled from fragments, wrapped  *)
(* in a one-message list with role "user", and validated.                  *)
(***************************************************************************)
NotRun == [ok |-> FALSE, error |-> "not run", value |-> <<>>]

SSN_TEXT == <<"1", "2", "3", "-", "4", "5", "-", "6", "7", "8", "9">>
ID_TEXT == <<"1", "2", "3", "4", "5", "6", "7", "8", "9", "0">>
EMAIL_TEXT == <<"a", "@", "b", ".", "c", "c">>
Pieces == {SSN_TEXT, ID_TEXT, EMAIL_TEXT,
           <<"7">>, <<"-">>, <<"x">>, <<"_">>, <<" ">>, <<".">>, <<"@">>, <<"|">>}

\* a run of n characters that no pattern and no trim touches
Filler(n) == [k \in 1..n |-> "!"]
FillLens == {MAX_MESSAGE_LENGTH - 10, MAX_MESSAGE_LENGTH}

UserMessage(content) == JObject([role |-> JString(ROLE_USER), content |-> JString(content)])

AppendPiece(p) ==
    /\ vResult = NotRun
    /\ vPieces < (IF vFill > 0 THEN MaxLongPieces ELSE MaxPieces)
    /\ vContent' = vContent \o p
    /\ vPieces' = vPieces + 1
    /\ UNCHANGED <<vFill, vResult, limVars, corsVars, hVars>>

AppendFiller(n) ==
    /\ vResult = NotRun
    /\ vPieces = 0
    /\ vFill = 0
    /\ vContent' = Filler(n)
    /\ vFill' = n
    /\ UNCHANGED <<vPieces, vResult, limVars, corsVars, hVars>>

Validate ==
    /\ vResult = NotRun
    /\ vResult' = validateAndSanitizeInput(JArray(<<UserMessage(vContent)>>))
    /\ UNCHANGED <<vContent, vPieces, vFill, limVars, corsVars, hVars>>

ValNext ==
    \/ \E p \in Pieces : AppendPiece(p)
    \/ \E n \in FillLens : AppendFiller(n)
    \/ Validate

(***************************************************************************)
(* Rate limiter                                                            *)
(***************************************************************************)
EmptyMap == [k \in {} |-> 0]

MapSet(map, key, value) ==
    [k \in DOMAIN map \cup {key} |-> IF k = key THEN value ELSE map[k]]

\* rateLimitStore.get(clientId) || { count: 0, resetTime: now + RATE_LIMIT_WINDOW }
ClientDataOf(store, clientId, t) ==
    IF clientId \in DOMAIN store THEN store[clientId]
    ELSE [count |-> 0, resetTime |-> t + RATE_LIMIT_WINDOW]

\* the if/else of isRateLimited: the window restarts, or the count goes up
BumpedNoIncrement(clientData, t) ==
    IF t > clientData.resetTime
    THEN [count |-> 1, resetTime |-> t + RATE_LIMIT_WINDOW]
    ELSE clientData
BumpedResetAtEnd(clientData, t) ==
    IF t >= clientData.resetTime
    THEN [count |-> 1, resetTime |-> t + RATE_LIMIT_WINDOW]
    ELSE [clientData EXCEPT !.count = @ + 1]
Bumped(clientData, t) ==
    IF t > clientData.resetTime
    THEN [count |-> 1, resetTime |-> t + RATE_LIMIT_WINDOW]
    ELSE [clientData EXCEPT !.count = @ + 1]

\* isRateLimited(clientId): the store it leaves, and the value it returns
StoreAfterCall(store, clientId, t) ==
    MapSet(store, clientId, Bumped(ClientDataOf(store, clientId, t), t))

isRateLimited(store, clientId, t) ==
    StoreAfterCall(store, clientId, t)[clientId].count > RATE_LIMIT_MAX_REQUESTS

Clients == {"anonymous", "10.0.0.1"}

\* History of a key: its window is opened by the first call made for the key and
\* by the first call made after the clock has passed the end of the window.
HistAfterCall(h, clientId, t, limited) ==
    LET fresh == clientId \notin DOMAIN h
        opens == fresh \/ t > h[clientId].winStart + RATE_LIMIT_WINDOW
        calls == IF opens THEN 1 ELSE h[clientId].calls + 1
        passed == (IF opens THEN 0 ELSE h[clientId].passed) + (IF limited THEN 0 ELSE 1)
    IN MapSet(h, clientId,
              [winStart |-> IF opens THEN t ELSE h[clientId].winStart,
               windows |-> IF fresh THEN 1 ELSE h[clientId].windows + (IF opens THEN 1 ELSE 0),
               calls |-> calls,
               passed |-> passed,
               limited |-> limited])

\* the calls made for one key are capped, to keep the model finite
CallAllowed(clientId) ==
    clientId \in DOMAIN rateLimitStore =>
        \/ rateLimitStore[clientId].count < RATE_LIMIT_MAX_REQUESTS + MaxOver
        \/ now > rateLimitStore[clientId].resetTime

Call(clientId) ==
    /\ CallAllowed(clientId)
    /\ rateLimitStore' = StoreAfterCall(rateLimitStore, clientId, now)
    /\ hist' = HistAfterCall(hist, clientId, now,
                             isRateLimited(rateLimitStore, clientId, now))
    /\ UNCHANGED <<now, valVars, corsVars, hVars>>

TickSteps == {RATE_LIMIT_WINDOW, RATE_LIMIT_WINDOW + 1}

Tick(d) ==
    /\ now + d <= MaxNow
    /\ now' = now + d
    /\ UNCHANGED <<rateLimitStore, hist, valVars, corsVars, hVars>>

LimNext ==
    \/ \E clientId \in Clients : Call(clientId)
    \/ \E d \in TickSteps : Tick(d)

(***************************************************************************)
(* CORS helper                                                             *)
(***************************************************************************)
ALLOWED_ORIGINS ==
    <<<<"h", "t", "t", "p", "s", ":", "/", "/", "m", "e", "n", "t", "o", "r", "a", "-", "a", "p", "p", ".", "a", "z", "u", "r", "e", "s", "t", "a", "t", "i", "c", "a", "p", "p", "s", ".", "n", "e", "t">>,
      <<"h", "t", "t", "p", "s", ":", "/", "/", "*", ".", "a", "z", "u", "r", "e", "s", "t", "a", "t", "i", "c", "a", "p", "p", "s", ".", "n", "e", "t">>>>

\* String.prototype.replace(search, by) with a string search: the first occurrence
ReplaceFirst(s, search, by) ==
    LET at == {i \in 1..Len(s) : s[i] = search}
    IN IF at = {} THEN s
       ELSE SubSeq(s, 1, Min(at) - 1) \o by \o SubSeq(s, Min(at) + 1, Len(s))

\* one pattern character against one text character: "." is any character but a
\* line terminator, every other character of these patterns stands for itself
AtomMatches(atom, c) == IF atom = "." THEN c \notin {"\n", "\r"} ELSE atom = c

\* whether pattern pat, from its position p on, matches text s at position i;
\* the pattern is not anchored, so the text may go on behind the match
RECURSIVE RegexMatchHere(_, _, _, _)
RegexMatchHere(pat, p, s, i) ==
    IF p > Len(pat) THEN TRUE
    ELSE IF p + 1 <= Len(pat) /\ pat[p + 1] = "*"
    THEN \E k \in 0..(Len(s) - i + 1) :
            /\ \A j \in i..(i + k - 1) : AtomMatches(pat[p], s[j])
            /\ RegexMatchHere(pat, p + 2, s, i + k)
    ELSE /\ i <= Len(s)
         /\ AtomMatches(pat[p], s[i])
         /\ RegexMatchHere(pat, p + 1, s, i + 1)

\* new RegExp(pattern).test(value): a match starting anywhere; a null value is
\* converted to the text "null"
RegexTest(pat, value) ==
    LET s == IF value.t = "null" THEN <<"n", "u", "l", "l">> ELSE value.v
    IN \E i \in 1..(Len(s) + 1) : RegexMatchHere(pat, 1, s, i)

\* the callback of ALLOWED_ORIGINS.some
OriginMatches(allowedOrigin, origin) ==
    IF "*" \in {allowedOrigin[j] : j \in 1..Len(allowedOrigin)}
    THEN RegexTest(ReplaceFirst(allowedOrigin, "*", <<".", "*">>), origin)
    ELSE origin.t = "string" /\ allowedOrigin = origin.v

isAllowedOrigin(origin) ==
    \E k \in 1..Len(ALLOWED_ORIGINS) : OriginMatches(ALLOWED_ORIGINS[k], origin)

\* getCorsHeaders(origin): the Access-Control-Allow-Origin header (the other
\* headers are fixed texts)
getCorsHeaders(origin) ==
    [allowOrigin |-> IF isAllowedOrigin(origin) THEN origin ELSE JString(ALLOWED_ORIGINS[1])]

(***************************************************************************)
(* CORS harness: an Origin value is assembled from fragments and resolved  *)
(***************************************************************************)
NoHeaders == [allowOrigin |-> JUndefined]

OriginPieces ==
    {<<"h", "t", "t", "p", "s", ":", "/", "/">>, <<"x">>, <<"m", "e", "n", "t", "o", "r", "a", "-", "a", "p", "p">>,
     <<".", "a", "z", "u", "r", "e", "s", "t", "a", "t", "i", "c", "a", "p", "p", "s", ".", "n", "e", "t">>, <<".", "e", "v", "i", "l", ".", "c", "o", "m">>, <<"*">>}

AppendOriginPiece(p) ==
    /\ cHeaders = NoHeaders
    /\ cPieces < MaxOriginPieces
    /\ cOrigin' = JString((IF cOrigin.t = "null" THEN <<>> ELSE cOrigin.v) \o p)
    /\ cPieces' = cPieces + 1
    /\ UNCHANGED <<cHeaders, valVars, limVars, hVars>>

ResolveOrigin ==
    /\ cHeaders = NoHeaders
    /\ cHeaders' = getCorsHeaders(cOrigin)
    /\ UNCHANGED <<cOrigin, cPieces, valVars, limVars, hVars>>

CorsNext ==
    \/ \E p \in OriginPieces : AppendOriginPiece(p)
    \/ ResolveOrigin

(***************************************************************************)
(* The chat handler.  An invocation runs from one await to the next in one  *)
(* step: nothing else runs in the process in between.                       *)
(***************************************************************************)
SYSTEM_PROMPT == <<"$", "s", "y", "s", "t", "e", "m", "-", "p", "r", "o", "m", "p", "t">>

systemMessage == [role |-> ROLE_SYSTEM, content |-> SYSTEM_PROMPT]

DEFAULT_MAX_TOKENS == 800
\* temperatures are counted in tenths: 0.7, 0.1 and 1.0
DEFAULT_TEMPERATURE == 7
MIN_TEMPERATURE == 1
MAX_TEMPERATURE == 10

\* a destructuring default: it applies to undefined only
OrDefault(value, default) == IF value.t = "undefined" THEN JNumber(default) ELSE value

\* ToNumber of the values the model hands to Math.min and Math.max
ToNumber(value) ==
    CASE value.t = "number" -> value.v
      [] value.t = "boolean" -> IF value.v THEN 1 ELSE 0
      [] value.t = "null" -> 0

MathMin(a, b) == IF a < b THEN a ELSE b
MathMax(a, b) == IF a > b THEN a ELSE b

\* body: JSON.stringify({messages, max_tokens, temperature, ...}) of the fetch call
OutboundBody(sanitizedMessages, maxTokens, temperature) ==
    [messages |-> <<systemMessage>> \o sanitizedMessages,
     max_tokens |-> MathMin(ToNumber(maxTokens), MAX_TOKENS),
     temperature |-> MathMax(MIN_TEMPERATURE,
                             MathMin(ToNumber(temperature), MAX_TEMPERATURE))]

NoCall == [messages |-> <<>>, max_tokens |-> 0, temperature |-> 0]
NoBody == [kind |-> "none", error |-> NoError, correlationId |-> 0]
NoResponse == [status |-> 0, allowOrigin |-> JUndefined, body |-> NoBody]
Unparsed == [t |-> "unparsed", v |-> <<>>]

ERR_RATE == "Too many requests. Please try again later."
ERR_CONFIG == "Service configuration error"
ERR_JSON == "Invalid JSON format"
ERR_UPSTREAM == "AI service temporarily unavailable. Please try again."
ERR_UNEXPECTED == "An unexpected error occurred. Please try again."

\* crypto.randomUUID(): one identifier per invocation
CorrelationId(i) == i

ErrorResponse(i, status, headers, error) ==
    [status |-> status, allowOrigin |-> headers.allowOrigin,
     body |-> [kind |-> "error", error |-> error, correlationId |-> CorrelationId(i)]]

\* the catch block of the handler: it computes the CORS headers again
CaughtResponse(i, origin) ==
    ErrorResponse(i, 500, getCorsHeaders(origin), ERR_UNEXPECTED)

\* request.headers.get('x-forwarded-for') || request.headers.get('x-session-id')
\* || 'anonymous'; an absent header and an empty one are both written ""
ClientIdOf(forwardedFor, sessionId) ==
    IF forwardedFor # "" THEN forwardedFor
    ELSE IF sessionId # "" THEN sessionId
    ELSE "anonymous"

\* the stages of the handler, in the order of its code; an invocation records the
\* stages it has entered
STAGE_PREFLIGHT == "preflight"
STAGE_LIMITER == "limiter"
STAGE_VALIDATOR == "validator"
STAGE_CALL == "call"

Started(i, method, origin, clientId) ==
    [pc |-> "start", method |-> method, origin |-> origin, clientId |-> clientId,
     corsHeaders |-> getCorsHeaders(origin), body |-> Unparsed, call |-> NoCall,
     upstream |-> "none", response |-> NoResponse,
     stages |-> <<>>, limited |-> FALSE, validated |-> "no"]

Entered(r, stage) == [r EXCEPT !.stages = Append(@, stage)]

Return(r, response) == [r EXCEPT !.pc = "done", !.response = response]

Free(i) == IF i \in DOMAIN inv THEN inv[i].pc = "done" ELSE TRUE

\* a handler that consults the limiter before it looks at the method
BeginLimiterFirst(i, method, origin, forwardedFor, sessionId) ==
    /\ Free(i)
    /\ LET clientId == ClientIdOf(forwardedFor, sessionId)
           limited == isRateLimited(rateLimitStore, clientId, now)
           r == [Entered(Started(i, method, origin, clientId), STAGE_LIMITER)
                     EXCEPT !.limited = limited]
           q == Entered(r, STAGE_PREFLIGHT)
       IN /\ CallAllowed(clientId)
          /\ rateLimitStore' = StoreAfterCall(rateLimitStore, clientId, now)
          /\ hist' = HistAfterCall(hist, clientId, now, limited)
          /\ inv' = MapSet(inv, i,
                 IF limited
                 THEN Return(r, ErrorResponse(i, 429, r.corsHeaders, ERR_RATE))
                 ELSE IF method = "OPTIONS"
                 THEN Return(q, [status |-> 200,
                                 allowOrigin |-> q.corsHeaders.allowOrigin,
                                 body |-> NoBody])
                 ELSE IF ~configured
                 THEN Return(q, ErrorResponse(i, 500, q.corsHeaders, ERR_CONFIG))
                 ELSE [q EXCEPT !.pc = "json"])
    /\ UNCHANGED <<now, configured, valVars, corsVars>>

\* from the start of the handler to "await request.json()"
Begin(i, method, origin, forwardedFor, sessionId) ==
    /\ Free(i)
    /\ LET clientId == ClientIdOf(forwardedFor, sessionId)
           r == Entered(Started(i, method, origin, clientId), STAGE_PREFLIGHT)
       IN IF method = "OPTIONS"
          THEN /\ inv' = MapSet(inv, i,
                           Return(r, [status |-> 200,
                                      allowOrigin |-> r.corsHeaders.allowOrigin,
                                      body |-> NoBody]))
               /\ UNCHANGED <<rateLimitStore, hist>>
          ELSE /\ CallAllowed(clientId)
               /\ rateLimitStore' = StoreAfterCall(rateLimitStore, clientId, now)
               /\ LET limited == isRateLimited(rateLimitStore, clientId, now)
                      q == [Entered(r, STAGE_LIMITER) EXCEPT !.limited = limited]
                  IN /\ hist' = HistAfterCall(hist, clientId, now, limited)
                     /\ inv' = MapSet(inv, i,
                          IF limited
                          THEN Return(q, ErrorResponse(i, 429, q.corsHeaders, ERR_RATE))
                          ELSE IF ~configured
                          THEN Return(q, ErrorResponse(i, 500, q.corsHeaders, ERR_CONFIG))
                          ELSE [q EXCEPT !.pc = "json"])
    /\ UNCHANGED <<now, configured, valVars, corsVars>>

\* "await request.json()" settles; up to "await fetch(...)"
JsonSettled(i, parsed) ==
    /\ i \in DOMAIN inv
    /\ inv[i].pc = "json"
    /\ LET r == [inv[i] EXCEPT !.body = parsed]
           checked == validateAndSanitizeInput(Prop(parsed, "messages"))
           v == [Entered(r, STAGE_VALIDATOR)
                     EXCEPT !.validated = IF checked.ok THEN "passed" ELSE "rejected"]
       IN inv' = MapSet(inv, i,
            IF parsed = Unparsed
            THEN Return(r, ErrorResponse(i, 400, r.corsHeaders, ERR_JSON))
            ELSE IF parsed.t \in {"null", "undefined"}
            THEN Return(r, CaughtResponse(i, r.origin))
            ELSE IF ~checked.ok
            THEN Return(v, ErrorResponse(i, 400, v.corsHeaders, checked.error))
            ELSE [Entered(v, STAGE_CALL)
                      EXCEPT !.pc = "fetch",
                           !.upstream = "pending",
                           !.call = OutboundBody(checked.value,
                                        OrDefault(Prop(parsed, "maxTokens"),
                                                  DEFAULT_MAX_TOKENS),
                                        OrDefault(Prop(parsed, "temperature"),
                                                  DEFAULT_TEMPERATURE))])
    /\ UNCHANGED <<configured, valVars, limVars, corsVars>>

\* "await fetch(...)" settles: a response with ok, one without, or a rejection
FetchSettled(i, outcome) ==
    /\ i \in DOMAIN inv
    /\ inv[i].pc = "fetch"
    /\ LET r == [inv[i] EXCEPT !.upstream = outcome]
       IN inv' = MapSet(inv, i,
            CASE outcome = "ok" -> [r EXCEPT !.pc = "respjson"]
              [] outcome = "notok" -> [r EXCEPT !.pc = "text"]
              [] outcome = "threw" -> Return(r, CaughtResponse(i, r.origin)))
    /\ UNCHANGED <<configured, valVars, limVars, corsVars>>

\* "await openaiResponse.text()" settles in the non-ok branch
TextSettled(i, resolved) ==
    /\ i \in DOMAIN inv
    /\ inv[i].pc = "text"
    /\ inv' = MapSet(inv, i,
            IF resolved
            THEN Return(inv[i], ErrorResponse(i, 503, inv[i].corsHeaders, ERR_UPSTREAM))
            ELSE Return(inv[i], CaughtResponse(i, inv[i].origin)))
    /\ UNCHANGED <<configured, valVars, limVars, corsVars>>

\* "await openaiResponse.json()" settles
RespJsonSettled(i, resolved) ==
    /\ i \in DOMAIN inv
    /\ inv[i].pc = "respjson"
    /\ inv' = MapSet(inv, i,
            IF resolved
            THEN Return(inv[i],
                        [status |-> 200,
                         allowOrigin |-> inv[i].corsHeaders.allowOrigin,
                         body |-> [kind |-> "completion", error |-> NoError,
                                   correlationId |-> CorrelationId(i)]])
            ELSE Return(inv[i], CaughtResponse(i, inv[i].origin)))
    /\ UNCHANGED <<configured, valVars, limVars, corsVars>>

(***************************************************************************)
(* Inputs of the handler                                                   *)
(***************************************************************************)
HI == <<"h", "i">>
Msg(role, content) == JObject([role |-> JString(role), content |-> JString(content)])
ValidList == JArray(<<Msg(ROLE_USER, HI)>>)
ListOf(n) == JArray([k \in 1..n |-> Msg(IF k = 1 THEN ROLE_USER ELSE ROLE_ASSISTANT, HI)])
WithMaxTokens(n) == JObject([messages |-> ValidList, maxTokens |-> JNumber(n)])
WithTemperature(n) == JObject([messages |-> ValidList, temperature |-> JNumber(n)])
WithMessages(list) == JObject([messages |-> list])

Bodies ==
    {WithMessages(ValidList),
     WithMessages(ListOf(MAX_MESSAGES)),
     WithMessages(JArray(<<Msg(ROLE_SYSTEM, SSN_TEXT), Msg(ROLE_USER, EMAIL_TEXT)>>)),
     WithMessages(JArray(<<Msg(ROLE_USER, <<" ">>)>>)),
     WithMessages(JArray(<<Msg(ROLE_USER, Filler(MAX_MESSAGE_LENGTH))>>)),
     WithMaxTokens(0), WithMaxTokens(0 - 5), WithMaxTokens(1), WithMaxTokens(MAX_TOKENS),
     WithMaxTokens(MAX_TOKENS + 4000),
     WithTemperature(0), WithTemperature(15),
     JNull, JNumber(5), JString(HI), JBool(TRUE), JArray(<<>>),
     JObject([maxTokens |-> JNumber(5)]),
     WithMessages(JNull),
     WithMessages(JString(HI)),
     WithMessages(JArray(<<>>)),
     WithMessages(ListOf(MAX_MESSAGES + 1)),
     WithMessages(JArray(<<JObject([content |-> JString(HI)])>>)),
     WithMessages(JArray(<<JObject([role |-> JString(ROLE_USER)])>>)),
     WithMessages(JArray(<<JNull>>)),
     WithMessages(JArray(<<JString(HI)>>)),
     WithMessages(JArray(<<Msg(<<"m", "o", "d", "e", "r", "a", "t", "o", "r">>, HI)>>)),
     WithMessages(JArray(<<Msg(ROLE_USER, HI), Msg(<<"m", "o", "d", "e", "r", "a", "t", "o", "r">>, HI)>>)),
     WithMessages(JArray(<<JObject([role |-> JString(ROLE_USER), content |-> JNumber(5)])>>)),
     WithMessages(JArray(<<JObject([role |-> JNumber(5), content |-> JString(HI)])>>)),
     WithMessages(JArray(<<Msg(ROLE_USER, Filler(MAX_MESSAGE_LENGTH + 1))>>))}

ConcBodies == {WithMessages(ValidList)}

Methods == {"POST", "OPTIONS"}
Origins ==
    {JNull, JString(ALLOWED_ORIGINS[1]),
     JString(<<"h", "t", "t", "p", "s", ":", "/", "/", "x", ".", "a", "z", "u", "r", "e", "s", "t", "a", "t", "i", "c", "a", "p", "p", "s", ".", "n", "e", "t", ".", "e", "v", "i", "l", ".", "c", "o", "m">>)}
FetchOutcomes == {"ok", "notok", "threw"}

Init ==
    /\ vContent = <<>>
    /\ vPieces = 0
    /\ vFill = 0
    /\ vResult = NotRun
    /\ rateLimitStore = EmptyMap
    /\ now = 0
    /\ hist = EmptyMap
    /\ cOrigin = JNull
    /\ cPieces = 0
    /\ cHeaders = NoHeaders
    /\ inv = EmptyMap
    /\ configured \in BOOLEAN

SpecValidate == Init /\ [][ValNext]_vars

SpecLimiter == Init /\ [][LimNext]_vars

SpecCors == Init /\ [][CorsNext]_vars

\* one invocation at a time, every input
Next ==
    \/ \E method \in Methods, origin \in Origins : Begin(1, method, origin, "", "")
    \/ \E parsed \in Bodies \cup {Unparsed} : JsonSettled(1, parsed)
    \/ \E outcome \in FetchOutcomes : FetchSettled(1, outcome)
    \/ \E resolved \in BOOLEAN : TextSettled(1, resolved)
    \/ \E resolved \in BOOLEAN : RespJsonSettled(1, resolved)

Spec == Init /\ [][Next]_vars

\* several invocations of one process, interleaved at their awaits, and the clock
ConcNext ==
    \/ \E i \in 1..MaxInv : Begin(i, "POST", JNull, "", "")
    \/ \E i \in 1..MaxInv, parsed \in ConcBodies : JsonSettled(i, parsed)
    \/ \E i \in 1..MaxInv, outcome \in {"ok", "notok"} : FetchSettled(i, outcome)
    \/ \E i \in 1..MaxInv : TextSettled(i, TRUE)
    \/ \E i \in 1..MaxInv : RespJsonSettled(i, TRUE)
    \/ \E d \in TickSteps : Tick(d)

SpecConc == Init /\ [][ConcNext]_vars

(***************************************************************************)
(* Properties                                                              *)
(***************************************************************************)
Contains(s, sub) ==
    \E i \in 1..(Len(s) - Len(sub) + 1) : SubSeq(s, i, i + Len(sub) - 1) = sub

\* 3 digits, hyphen, 2 digits, hyphen, 4 digits at position i, whatever surrounds it
SsnShapeAt(s, i) ==
    /\ i >= 1
    /\ i + 10 <= Len(s)
    /\ \A j \in {i, i + 1, i + 2, i + 4, i + 5, i + 7, i + 8, i + 9, i + 10} : s[j] \in Digits
    /\ s[i + 3] = "-"
    /\ s[i + 6] = "-"

\* C1: for each key, a call is limited exactly when it is the 31st or a later
\* call of the key's window; the stored window ends 60000 ms after the call that
\* opened it (the first call of a fresh key, or the first call after the clock
\* passed the end of the window); and exactly the first 30 calls of a window pass.
C1_WindowOfThirty ==
    \A k \in DOMAIN hist :
        /\ hist[k].limited = (hist[k].calls > RATE_LIMIT_MAX_REQUESTS)
        /\ k \in DOMAIN rateLimitStore
        /\ rateLimitStore[k].resetTime = hist[k].winStart + RATE_LIMIT_WINDOW
        /\ hist[k].passed =
              IF hist[k].calls > RATE_LIMIT_MAX_REQUESTS
              THEN RATE_LIMIT_MAX_REQUESTS ELSE hist[k].calls

\* a key is in its second window, opened after the clock passed resetTime, and
\* its 31st call there has been limited
C1_Witness ==
    \E k \in DOMAIN hist :
        /\ hist[k].windows = 2
        /\ hist[k].winStart > RATE_LIMIT_WINDOW
        /\ hist[k].calls = RATE_LIMIT_MAX_REQUESTS + 1
        /\ hist[k].limited
        /\ hist[k].passed = RATE_LIMIT_MAX_REQUESTS

\* C2: under every interleaving of invocations, the count stored for a key is the
\* number of isRateLimited calls made for it since its window was last reset, and
\* at most 30 requests of the key have passed the limiter in that window.
C2_NoLostUpdate ==
    /\ DOMAIN rateLimitStore = DOMAIN hist
    /\ \A k \in DOMAIN rateLimitStore :
          /\ rateLimitStore[k].count = hist[k].calls
          /\ hist[k].passed <= RATE_LIMIT_MAX_REQUESTS

\* while one invocation is suspended at an await, another invocation for the same
\* key has made the 31st call of the window and has been answered 429
C2_Witness ==
    \E i, j \in DOMAIN inv :
        /\ i # j
        /\ inv[i].pc \in {"json", "fetch", "text", "respjson"}
        /\ inv[j].pc = "done"
        /\ inv[j].response.status = 429
        /\ inv[i].clientId = inv[j].clientId
        /\ inv[i].clientId \in DOMAIN hist
        /\ hist[inv[i].clientId].calls > RATE_LIMIT_MAX_REQUESTS
        /\ hist[inv[i].clientId].passed = RATE_LIMIT_MAX_REQUESTS
        /\ hist[inv[i].clientId].limited

\* the message list of a parsed body is absent, not a sequence, empty, longer than
\* 10, or has an element that lacks role or content, whose role is not one of the
\* three, or whose content is not text or is longer than 4000
ClaimedInvalid(body) ==
    LET list == IF body.t = "object" THEN Prop(body, "messages") ELSE JUndefined
        BadElement(e) ==
            \/ e.t # "object"
            \/ Prop(e, "role").t \in {"undefined", "null"}
            \/ Prop(e, "content").t \in {"undefined", "null"}
            \/ ~(Prop(e, "role").t = "string" /\ Prop(e, "role").v \in ValidRoles)
            \/ Prop(e, "content").t # "string"
            \/ Len(Prop(e, "content").v) > MAX_MESSAGE_LENGTH
    IN \/ list.t # "array"
       \/ Len(list.v) = 0
       \/ Len(list.v) > MAX_MESSAGES
       \/ \E k \in 1..Len(list.v) : BadElement(list.v[k])

\* C3: a request whose body parsed as JSON and whose message list is invalid is
\* answered with HTTP 400 and {error, correlationId}, with no outbound call made.
C3_InvalidListAnswered400 ==
    \A i \in DOMAIN inv :
        (inv[i].body # Unparsed /\ ClaimedInvalid(inv[i].body)) =>
            /\ inv[i].pc = "done"
            /\ inv[i].response.status = 400
            /\ inv[i].response.body.kind = "error"
            /\ inv[i].response.body.correlationId = CorrelationId(i)
            /\ inv[i].call = NoCall

\* C8: the max_tokens value of every outbound call lies in 1..1000.
C8_MaxTokensInRange ==
    \A i \in DOMAIN inv :
        inv[i].call # NoCall =>
            (inv[i].call.max_tokens >= 1 /\ inv[i].call.max_tokens <= MAX_TOKENS)

\* C9: a request whose outbound call failed, by a non-success status or by
\* raising an error, is answered with HTTP 503 and the fixed generic message.
C9_UpstreamFailureAnswered503 ==
    \A i \in DOMAIN inv :
        (inv[i].pc = "done" /\ inv[i].upstream \in {"notok", "threw"}) =>
            /\ inv[i].response.status = 503
            /\ inv[i].response.body.kind = "error"
            /\ inv[i].response.body.error = ERR_UPSTREAM
            /\ inv[i].response.body.correlationId = CorrelationId(i)

\* C4: every message of a returned Conversation has content no longer than
\* MAX_MESSAGE_LENGTH.
C4_LengthBound ==
    vResult.ok =>
        \A k \in 1..Len(vResult.value) :
            Len(vResult.value[k].content) <= MAX_MESSAGE_LENGTH

\* C5: every message of a returned Conversation has content that is non-empty
\* after trimming.
C5_NonEmptyContent ==
    vResult.ok =>
        \A k \in 1..Len(vResult.value) : Trim(vResult.value[k].content) # <<>>

\* C6: an accepted content that contains the SSN shape anywhere comes out with
\* the token "[REDACTED-SSN]" in it and without the original digit sequence.
C6_SsnRedactedAnywhere ==
    vResult.ok =>
        \A i \in 1..Len(vContent) :
            SsnShapeAt(vContent, i) =>
                /\ Contains(vResult.value[1].content, REDACTED_SSN)
                /\ ~Contains(vResult.value[1].content, SubSeq(vContent, i, i + 10))

\* the SSN shape at position i with no letter, digit or underscore right before or
\* right behind it
DelimitedSsnAt(s, i) ==
    /\ SsnShapeAt(s, i)
    /\ (i = 1 \/ s[i - 1] \notin WordChars)
    /\ (i + 11 > Len(s) \/ s[i + 11] \notin WordChars)

\* C6 (amended): an accepted content that contains the SSN shape with no letter,
\* digit or underscore right before or right behind it comes out with the token
\* "[REDACTED-SSN]" in it, and no SSN shape so delimited is left in it.
C6_DelimitedSsnRedacted ==
    vResult.ok =>
        LET out == vResult.value[1].content
        IN /\ (\E i \in 1..Len(vContent) : DelimitedSsnAt(vContent, i))
                => Contains(out, REDACTED_SSN)
           /\ \A j \in 1..Len(out) : ~DelimitedSsnAt(out, j)

\* a content with two delimited SSN shapes and text between them was sanitized
C6_Witness ==
    /\ vResult.ok
    /\ \E i \in 1..Len(vContent) :
          /\ DelimitedSsnAt(vContent, i)
          /\ \E j \in (i + 1)..Len(vContent) : DelimitedSsnAt(vContent, j)
    /\ Contains(vResult.value[1].content, REDACTED_SSN)

\* the entry with its "*" replaced by one or more characters is the whole text
FullWildcardMatch(entry, text) ==
    \E i \in 1..Len(entry) :
        /\ entry[i] = "*"
        /\ Len(text) >= Len(entry)
        /\ SubSeq(text, 1, i - 1) = SubSeq(entry, 1, i - 1)
        /\ SubSeq(text, Len(text) - (Len(entry) - i) + 1, Len(text))
              = SubSeq(entry, i + 1, Len(entry))

StrictlyAllowed(origin) ==
    /\ origin.t = "string"
    /\ \E k \in 1..Len(ALLOWED_ORIGINS) :
          \/ ALLOWED_ORIGINS[k] = origin.v
          \/ FullWildcardMatch(ALLOWED_ORIGINS[k], origin.v)

\* C7: the Access-Control-Allow-Origin value is never the bare "*"; it is the
\* request origin when the whole origin equals an exact entry or matches a
\* wildcard entry in its entirety, and the first entry for every other origin.
C7_OriginEchoedOnlyOnFullMatch ==
    cHeaders # NoHeaders =>
        /\ cHeaders.allowOrigin # JString(<<"*">>)
        /\ cHeaders.allowOrigin =
              IF StrictlyAllowed(cOrigin) THEN cOrigin ELSE JString(ALLOWED_ORIGINS[1])

\* C10: redacting and trimming a sanitized content again returns it unchanged,
\* and none of the three patterns matches anywhere in a sanitized content (so no
\* token, alone or with the text around it, is matched).
C10_RedactionIdempotent ==
    vResult.ok =>
        LET out == vResult.value[1].content
        IN /\ Trim(sanitizedContent(out)) = out
           /\ \A rule \in {"ssn", "id", "email"} :
                  \A j \in 1..Len(out) : MatchLen(rule, out, j) = 0

\* a content in which two different patterns were replaced has been sanitized
C10_Witness ==
    /\ vResult.ok
    /\ Contains(vResult.value[1].content, REDACTED_EMAIL)
    /\ \/ Contains(vResult.value[1].content, REDACTED_SSN)
       \/ Contains(vResult.value[1].content, REDACTED_ID)


STAGE_ORDER == <<STAGE_PREFLIGHT, STAGE_LIMITER, STAGE_VALIDATOR, STAGE_CALL>>

IsPrefix(s, t) == Len(s) <= Len(t) /\ SubSeq(t, 1, Len(s)) = s

\* the stages an invocation has entered are an initial part of the fixed order; a
\* preflight, and a request the limiter limited, stopped where the claim says
StagesOf(r) ==
    /\ IsPrefix(r.stages, STAGE_ORDER)
    /\ r.method = "OPTIONS" =>
          /\ r.pc = "done"
          /\ r.response.status = 200
          /\ r.stages = <<STAGE_PREFLIGHT>>
          /\ r.validated = "no"
          /\ r.call = NoCall
    /\ r.limited =>
          /\ r.pc = "done"
          /\ r.response.status = 429
          /\ r.stages = <<STAGE_PREFLIGHT, STAGE_LIMITER>>
          /\ r.body = Unparsed
          /\ r.validated = "no"
          /\ r.call = NoCall
    /\ (r.call # NoCall \/ r.upstream # "none") =>
          /\ r.stages = STAGE_ORDER
          /\ ~r.limited
          /\ r.validated = "passed"
    /\ (r.call # NoCall) = (r.upstream # "none")

\* a step in which invocation i answers a preflight
AnswersPreflight(i) ==
    /\ i \in DOMAIN inv'
    /\ inv'[i].method = "OPTIONS"
    /\ IF i \in DOMAIN inv THEN inv'[i] # inv[i] ELSE TRUE

\* C11: the stages run in the order preflight, rate limiter, validator, outbound
\* call, and a request stopped at one stage reaches no later one: a preflight is
\* answered 200 without the limiter being consulted and leaves every client's
\* count unchanged; a limited request is answered 429 and is neither validated
\* nor forwarded; an outbound call is made only for a request the limiter
\* accepted and whose messages passed validation.
C11_StagesInOrder ==
    /\ [](\A i \in DOMAIN inv : StagesOf(inv[i]))
    /\ [][\A i \in 1..MaxInv :
             AnswersPreflight(i) => (rateLimitStore' = rateLimitStore /\ hist' = hist)]_vars

\* a preflight has been answered for a client whose last request was limited: the
\* stored count is past the limit and the preflight was not stopped by it
C11_Witness ==
    \E i \in DOMAIN inv :
        /\ inv[i].method = "OPTIONS"
        /\ inv[i].pc = "done"
        /\ inv[i].response.status = 200
        /\ inv[i].clientId \in DOMAIN rateLimitStore
        /\ rateLimitStore[inv[i].clientId].count > RATE_LIMIT_MAX_REQUESTS
        /\ hist[inv[i].clientId].limited

====
